---- MODULE Spec2Model ----
(***************************************************************************)
(* Model of agent_comm/tools/tdd_tools.py: the directory provisioner       *)
(* (_ensure_dirs), the two file writers (write_test_file,                  *)
(* write_code_file), the command executor (run_shell_command) and the      *)
(* placeholder operations (define_task, run_tests, analyze_failure,        *)
(* refactor_code).                                                         *)
(*                                                                         *)
(* Text is a sequence of one-character strings.  A path is a sequence of   *)
(* path segments; the segment "/" in first position marks an absolute      *)
(* path.  A Python dict is a function whose DOMAIN is its key set.         *)
(***************************************************************************)
EXTENDS Integers, Sequences, FiniteSets, TLC

\* ------------------------------------------------------------------------
\* Program constants
\* ------------------------------------------------------------------------
CODE_BASE_DIR == "simulated_codebase"

TEST_BASE_DIR == "simulated_tests"

\* the slice bound of test_content[:100] / code_content[:100]
PreviewLen == 100

\* ------------------------------------------------------------------------
\* Bounds of the model
\* ------------------------------------------------------------------------
\* short contents have 0..MaxShort characters
MaxShort == 2

\* long contents have PreviewLen..PreviewLen+MaxExtra characters
MaxExtra == 1

\* number of callers that may run the file writers at the same time
NumCallers == 2

\* longest "details" list handed to analyze_failure
MaxDetails == 2

\* ------------------------------------------------------------------------
\* Text
\* ------------------------------------------------------------------------
LF == "\n"

CR == "\r"

Chars == {"a", LF}

Rep(c, n) == [i \in 1..n |-> c]

ShortContents == {Rep(c, n) : c \in Chars, n \in 0..MaxShort}

LongContents == {Rep("a", n) : n \in PreviewLen..(PreviewLen + MaxExtra)}

Contents == ShortContents \cup LongContents

IsPrefix(s, t) == Len(s) <= Len(t) /\ SubSeq(t, 1, Len(s)) = s

EndsWith(s, t) == Len(t) <= Len(s) /\ SubSeq(s, Len(s) - Len(t) + 1, Len(s)) = t

\* os.linesep of the host: "\n" on POSIX, "\r\n" on Windows
LineSeps == {<<LF>>, <<CR, LF>>}

\* a stream opened with newline="\r\n": the host's separator is ignored
RECURSIVE TranslateNewlinesCRLF(_, _)
TranslateNewlinesCRLF(s, sep) ==
    IF s = <<>> THEN <<>>
    ELSE (IF Head(s) = LF THEN <<CR, LF>> ELSE <<Head(s)>>) \o TranslateNewlinesCRLF(Tail(s), sep)

\* What a text-mode stream opened with newline=None stores for the text s:
\* every "\n" written is replaced by the line separator sep.
RECURSIVE TranslateNewlines(_, _)
TranslateNewlines(s, sep) ==
    IF s = <<>> THEN <<>>
    ELSE (IF Head(s) = LF THEN sep ELSE <<Head(s)>>) \o TranslateNewlines(Tail(s), sep)

\* a slice one character short
PreviewOffByOne(content) ==
    SubSeq(content, 1, IF Len(content) < PreviewLen - 1 THEN Len(content) ELSE PreviewLen - 1)

\* content[:100]
Preview(content) == SubSeq(content, 1, IF Len(content) < PreviewLen THEN Len(content) ELSE PreviewLen)

\* ------------------------------------------------------------------------
\* Paths and the file system
\* ------------------------------------------------------------------------
BaseDirs == {CODE_BASE_DIR, TEST_BASE_DIR}

FileNames == {"a.py"}

\* the working directory of the process
Cwd == <<"/", "cwd">>

\* the files the model tracks: <<directory, file name>>
Locs == BaseDirs \X FileNames

\* a plain relative file name, a traversal into the code directory, a name
\* below a missing sub-directory, the empty name, an absolute name
PlainNames == {<<f>> : f \in FileNames}

TraversalNames == {<<"..", CODE_BASE_DIR, f>> : f \in FileNames}

Names == PlainNames \cup TraversalNames
           \cup {<<"sub", "a.py">>, <<>>, Cwd \o <<TEST_BASE_DIR, "a.py">>}

IsAbs(path) == path # <<>> /\ path[1] = "/"

\* os.path.join(base, name)
Join(base, name) == IF IsAbs(name) THEN name ELSE <<base>> \o name

\* the path the kernel reaches: ".." steps to the parent, a relative path
\* starts in the working directory
RECURSIVE Walk(_, _)
Walk(segs, at) ==
    IF segs = <<>> THEN at
    ELSE LET s == Head(segs)
             next == IF s = "/" THEN <<"/">>
                     ELSE IF s = ".."
                          THEN (IF Len(at) > 1 THEN SubSeq(at, 1, Len(at) - 1) ELSE at)
                          ELSE Append(at, s)
         IN Walk(Tail(segs), next)

Resolve(path) == Walk(path, Cwd)

NoFile == [exists |-> FALSE, data |-> <<>>]

File(data) == [exists |-> TRUE, data |-> data]

\* ------------------------------------------------------------------------
\* Outcomes of a call
\* ------------------------------------------------------------------------
NoOutcome == [kind |-> "none"]

Returned(value) == [kind |-> "returned", value |-> value]

Raised(exc) == [kind |-> "raised", exc |-> exc]

PyNone == [none |-> TRUE]

NoProc == [spawned |-> FALSE]

NoCall == [op |-> "none", name |-> <<>>, content |-> <<>>, input |-> "",
           fd |-> <<>>, before |-> "", repeat |-> FALSE, fault |-> "", proc |-> NoProc]

\* ------------------------------------------------------------------------
\* State
\* ------------------------------------------------------------------------
VARIABLES
    linesep,    \* os.linesep of the host
    writable,   \* whether the working directory permits creating entries
    dirs,       \* what stands at each of the two base directory paths
    files,      \* the tracked files
    pc,         \* each caller's position
    call,       \* each caller's current call and its arguments
    result,     \* each caller's outcome of its latest call
    lastWrite   \* per file: the data stored by the latest write to it

vars == <<linesep, writable, dirs, files, pc, call, result, lastWrite>>

Callers == 1..NumCallers

NoWrite == [written |-> FALSE, data |-> <<>>]

TypeOK ==
    /\ linesep \in LineSeps
    /\ writable \in BOOLEAN
    /\ dirs \in [BaseDirs -> {"absent", "dir", "file"}]
    /\ DOMAIN files = Locs
    /\ \A l \in Locs : files[l].exists => dirs[l[1]] = "dir"
    /\ pc \in [Callers -> {"idle", "open", "write", "done"}]

\* ------------------------------------------------------------------------
\* Directory Provisioner: _ensure_dirs
\* ------------------------------------------------------------------------
\* os.makedirs(path) without exist_ok: an existing directory is an error
MakeDirsNoExistOk(kind, w) ==
    IF kind # "absent" THEN [kind |-> kind, exc |-> "FileExistsError"]
    ELSE IF w THEN [kind |-> "dir", exc |-> ""]
    ELSE [kind |-> "absent", exc |-> "PermissionError"]

\* os.makedirs(path, exist_ok=True) on one path of the working directory:
\* an existing directory is left alone, anything else standing there is an
\* error, a missing one is created if the parent permits it.
MakeDirs(kind, w) ==
    IF kind = "dir" THEN [kind |-> "dir", exc |-> ""]
    ELSE IF kind = "file" THEN [kind |-> "file", exc |-> "FileExistsError"]
    ELSE IF w THEN [kind |-> "dir", exc |-> ""]
    ELSE [kind |-> "absent", exc |-> "PermissionError"]

\* a provisioner that forgets the test directory
EnsureDirsCodeOnly(ds, w) ==
    LET c == MakeDirs(ds[CODE_BASE_DIR], w)
    IN [dirs |-> [ds EXCEPT ![CODE_BASE_DIR] = c.kind], exc |-> c.exc]

\* the code directory first, then the test directory; the first error ends it
EnsureDirs(ds, w) ==
    LET c == MakeDirs(ds[CODE_BASE_DIR], w)
        ds1 == [ds EXCEPT ![CODE_BASE_DIR] = c.kind]
        t == MakeDirs(ds1[TEST_BASE_DIR], w)
    IN IF c.exc # "" THEN [dirs |-> ds1, exc |-> c.exc]
       ELSE [dirs |-> [ds1 EXCEPT ![TEST_BASE_DIR] = t.kind], exc |-> t.exc]

\* a caller runs one call at a time
CanCall(p) == pc[p] = "idle"

\* whether caller p's latest call was a _ensure_dirs() that returned
Provisioned(p) == call[p].op = "_ensure_dirs" /\ result[p].kind = "returned"

\* the call is over: the caller has its result, or the exception, and goes on
Return(p) ==
    /\ pc[p] = "done"
    /\ pc' = [pc EXCEPT ![p] = "idle"]
    /\ call' = [call EXCEPT ![p] = [NoCall EXCEPT !.repeat = Provisioned(p)]]
    /\ result' = [result EXCEPT ![p] = NoOutcome]
    /\ UNCHANGED <<linesep, writable, dirs, files, lastWrite>>

\* a direct call of _ensure_dirs()
ensure_dirs(p) ==
    /\ CanCall(p)
    /\ LET e == EnsureDirs(dirs, writable)
       IN /\ dirs' = e.dirs
          /\ result' = [result EXCEPT ![p] = IF e.exc = "" THEN Returned(PyNone) ELSE Raised(e.exc)]
    /\ pc' = [pc EXCEPT ![p] = "done"]
    /\ call' = [call EXCEPT ![p] = [NoCall EXCEPT !.op = "_ensure_dirs",
                                                  !.repeat = call[p].repeat,
                                                  !.fault = IF EnsureDirs(dirs, writable).exc = ""
                                                            THEN "" ELSE "mkdir"]]
    /\ UNCHANGED <<linesep, writable, files, lastWrite>>

\* ------------------------------------------------------------------------
\* File Writer: write_test_file, write_code_file
\* ------------------------------------------------------------------------
WriterOps == {"write_test_file", "write_code_file"}

\* both writers aimed at the code directory
TargetDirSame(op) == CODE_BASE_DIR

TargetDir(op) == IF op = "write_test_file" THEN TEST_BASE_DIR ELSE CODE_BASE_DIR

FilePath(op, name) == Join(TargetDir(op), name)

\* whether the resolved path np is an existing directory
IsDir(np, ds) ==
    \/ IsPrefix(np, Cwd)
    \/ \E d \in BaseDirs : np = Cwd \o <<d>> /\ ds[d] = "dir"

\* open(file_path, "w"): every directory on the way must exist; the target
\* must not be a directory; the file is created or truncated
OpenForWrite(path, ds) ==
    LET np == Resolve(path)
    IN IF \E i \in 1..(Len(path) - 1) : ~IsDir(Resolve(SubSeq(path, 1, i)), ds)
       THEN [exc |-> "FileNotFoundError", loc |-> <<>>]
       ELSE IF path = <<>> \/ IsDir(np, ds)
       THEN [exc |-> "IsADirectoryError", loc |-> <<>>]
       ELSE IF \E l \in Locs : np = Cwd \o l /\ ds[l[1]] = "dir"
       THEN [exc |-> "", loc |-> CHOOSE l \in Locs : np = Cwd \o l]
       ELSE [exc |-> "FileNotFoundError", loc |-> <<>>]

\* a mode that keeps what the file holds
TruncateKeep(old) == IF old.exists THEN old ELSE File(<<>>)

\* mode "w": the file is created if missing and cut to length 0 if present
Truncate(old) == File(<<>>)

\* a stream in append mode: every write goes to the current end of the file
WriteAtEnd(cur, data) == cur \o data

\* the stream writes from its own offset 0 over whatever the file holds now
WriteAt(cur, data) == data \o SubSeq(cur, Len(data) + 1, Len(cur))

\* how many characters of data reach the file: all of them, or only the
\* first half when the device fails (disk full) during the flush
WriteLens(data) == {Len(data), Len(data) \div 2}

\* a writer that swallows the failed flush and reports success
WriteOutcomeSwallow(path, content, data, k) ==
    Returned([status |-> "success", file_path |-> path, content_preview |-> Preview(content)])

\* f.write(content), leaving the with block, and the return statement:
\* a failed flush raises, otherwise the result record is returned
WriteOutcome(path, content, data, k) ==
    IF k < Len(data) THEN Raised("OSError")
    ELSE Returned([status |-> "success", file_path |-> path, content_preview |-> Preview(content)])

\* what the file at loc holds, and whether a write of this program put it there
Held(loc) ==
    IF ~files[loc].exists THEN "absent"
    ELSE IF ~lastWrite[loc].written THEN "foreign"
    ELSE IF files[loc].data = <<>> THEN "written-empty"
    ELSE "written"

\* entry of a writer: _ensure_dirs()
WriteFileEnsure(p, op, name, content) ==
    /\ CanCall(p)
    /\ LET e == EnsureDirs(dirs, writable)
       IN /\ dirs' = e.dirs
          /\ pc' = [pc EXCEPT ![p] = IF e.exc = "" THEN "open" ELSE "done"]
          /\ result' = [result EXCEPT ![p] = IF e.exc = "" THEN NoOutcome ELSE Raised(e.exc)]
          /\ call' = [call EXCEPT ![p] = [NoCall EXCEPT !.op = op, !.name = name,
                                                        !.content = content,
                                                        !.fault = IF e.exc = "" THEN "" ELSE "mkdir"]]
    /\ UNCHANGED <<linesep, writable, files, lastWrite>>

\* file_path = os.path.join(DIR, name); open(file_path, "w")
WriteFileOpen(p) ==
    /\ pc[p] = "open"
    /\ \E denied \in BOOLEAN :
        LET o == OpenForWrite(FilePath(call[p].op, call[p].name), dirs)
        IN IF o.exc # "" \/ denied
           THEN /\ pc' = [pc EXCEPT ![p] = "done"]
                /\ result' = [result EXCEPT ![p] =
                                 Raised(IF o.exc # "" THEN o.exc ELSE "PermissionError")]
                /\ call' = [call EXCEPT ![p].fault = "open"]
                /\ UNCHANGED files
           ELSE /\ pc' = [pc EXCEPT ![p] = "write"]
                /\ files' = [files EXCEPT ![o.loc] = Truncate(files[o.loc])]
                /\ call' = [call EXCEPT ![p].fd = o.loc, ![p].before = Held(o.loc)]
                /\ UNCHANGED result
    /\ UNCHANGED <<linesep, writable, dirs, lastWrite>>

\* f.write(content); close; return {...}
WriteFileWrite(p) ==
    /\ pc[p] = "write"
    /\ LET c == call[p]
           data == TranslateNewlines(c.content, linesep)
       IN \E k \in WriteLens(data) :
            /\ files' = [files EXCEPT ![c.fd] = File(WriteAt(files[c.fd].data, SubSeq(data, 1, k)))]
            /\ lastWrite' = [lastWrite EXCEPT ![c.fd] = [written |-> TRUE, data |-> SubSeq(data, 1, k)]]
            /\ result' = [result EXCEPT ![p] = WriteOutcome(FilePath(c.op, c.name), c.content, data, k)]
            /\ call' = [call EXCEPT ![p].fault = IF k < Len(data) THEN "write" ELSE ""]
    /\ pc' = [pc EXCEPT ![p] = "done"]
    /\ UNCHANGED <<linesep, writable, dirs>>

\* ------------------------------------------------------------------------
\* Placeholder operations
\* ------------------------------------------------------------------------
Texts == {"", "add two numbers"}

define_task(p, task_description) ==
    /\ CanCall(p)
    /\ pc' = [pc EXCEPT ![p] = "done"]
    /\ call' = [call EXCEPT ![p] = [NoCall EXCEPT !.op = "define_task", !.input = task_description]]
    /\ result' = [result EXCEPT ![p] = Returned([status |-> "success", task |-> task_description])]
    /\ UNCHANGED <<linesep, writable, dirs, files, lastWrite>>

refactor_code(p, refactoring_plan) ==
    /\ CanCall(p)
    /\ pc' = [pc EXCEPT ![p] = "done"]
    /\ call' = [call EXCEPT ![p] = [NoCall EXCEPT !.op = "refactor_code", !.input = refactoring_plan]]
    /\ result' = [result EXCEPT ![p] =
                     Returned([status |-> "refactoring_applied", plan |-> refactoring_plan])]
    /\ UNCHANGED <<linesep, writable, dirs, files, lastWrite>>

PassedEntry == [test |-> "test_add_numbers", status |-> "passed"]

FailedEntry == [test |-> "test_subtract_numbers", status |-> "failed",
                error |-> "AssertionError: 3 != 2"]

simulated_test_output ==
    [summary |-> "1 failed, 1 passed", details |-> <<PassedEntry, FailedEntry>>]

RunTestsResult == [status |-> "failed", test_results |-> simulated_test_output]

run_tests(p) ==
    /\ CanCall(p)
    /\ pc' = [pc EXCEPT ![p] = "done"]
    /\ call' = [call EXCEPT ![p] = [NoCall EXCEPT !.op = "run_tests"]]
    /\ result' = [result EXCEPT ![p] = Returned(RunTestsResult)]
    /\ UNCHANGED <<linesep, writable, dirs, files, lastWrite>>

\* entries a details list may hold: with and without the keys the analysis reads
Entries == {PassedEntry, FailedEntry,
            [test |-> "test_x", status |-> "failed"],
            [status |-> "failed", error |-> "boom"],
            [test |-> "test_y"]}

DetailLists == UNION {[1..n -> Entries] : n \in 0..MaxDetails}

EmptyDict == [k \in {} |-> ""]

FailureDetails == {EmptyDict, RunTestsResult, simulated_test_output}
                    \cup {[details |-> d] : d \in DetailLists}

\* t.get("status") == "failed"
IsFailed(t) == "status" \in DOMAIN t /\ t["status"] = "failed"

\* the outcome of analyze_failure: the subscripts first_failure['test'] and
\* first_failure['error'] raise KeyError on a missing key
AnalyzeOutcome(failure_details) ==
    IF "details" \in DOMAIN failure_details
       /\ \E i \in DOMAIN failure_details["details"] : IsFailed(failure_details["details"][i])
    THEN LET ds == failure_details["details"]
             first == CHOOSE i \in DOMAIN ds :
                         IsFailed(ds[i]) /\ \A j \in DOMAIN ds : IsFailed(ds[j]) => i <= j
             first_failure == ds[first]
         IN IF "test" \notin DOMAIN first_failure \/ "error" \notin DOMAIN first_failure
            THEN Raised("KeyError")
            ELSE Returned([status |-> "analysis_complete",
                           bug_report |-> "Bug in " \o first_failure["test"] \o ": "
                                           \o first_failure["error"] \o ". Suggesting fix in "
                                           \o CODE_BASE_DIR \o "/some_module.py",
                           suggested_fix |-> "Adjust the subtraction logic."])
    ELSE Returned([status |-> "no_failures_found"])

analyze_failure(p, failure_details) ==
    /\ CanCall(p)
    /\ pc' = [pc EXCEPT ![p] = "done"]
    /\ call' = [call EXCEPT ![p] = [NoCall EXCEPT !.op = "analyze_failure", !.input = failure_details]]
    /\ result' = [result EXCEPT ![p] = AnalyzeOutcome(failure_details)]
    /\ UNCHANGED <<linesep, writable, dirs, files, lastWrite>>

\* ------------------------------------------------------------------------
\* Command Executor: run_shell_command
\* ------------------------------------------------------------------------
\* the NUL character, which no process argument can hold
NUL == "<NUL>"

Commands == {<<"t", "r", "u", "e">>, <<"l", "s">>, <<"l", "s", " ", NUL>>}

\* what the spawned process does is the environment's choice: its exit code
\* (negative when a signal ended it) and the bytes on its two streams
ExitCodes == {0, 1, -9}

\* the byte 104 is "h"; the byte 255 occurs in no UTF-8 text
Outputs == {<<>>, <<104>>, <<255>>}

Processes == {[spawned |-> TRUE, rc |-> rc, out |-> o[1], err |-> o[2]] :
                 rc \in ExitCodes,
                 o \in {<<<<>>, <<>>>>, <<<<104>>, <<>>>>, <<<<>>, <<104>>>>, <<<<255>>, <<>>>>}}

Decodable(bytes) == \A i \in DOMAIN bytes : bytes[i] < 128

Decode(bytes) == [i \in DOMAIN bytes |-> IF bytes[i] = 104 THEN "h" ELSE "?"]

Spawns(command) == ~\E i \in DOMAIN command : command[i] = NUL

\* str(e) of the CalledProcessError
ErrorText(command, rc) ==
    IF rc < 0
    THEN <<"Command '">> \o command \o <<"' died with signal ", ToString(-rc), ".">>
    ELSE <<"Command '">> \o command \o <<"' returned non-zero exit status ", ToString(rc), ".">>

\* the same call with check=False: no exit code raises
RunOutcomeNoCheck(command, proc) ==
    IF ~Spawns(command) THEN Raised("ValueError")
    ELSE IF ~Decodable(proc.out) \/ ~Decodable(proc.err) THEN Raised("UnicodeDecodeError")
    ELSE Returned([status |-> "success", command |-> command, stdout |-> Decode(proc.out),
                   stderr |-> Decode(proc.err)])

\* subprocess.run(command, shell=True, capture_output=True, text=True,
\* check=True) inside try / except CalledProcessError: starting the process
\* and decoding its output raise other errors, which nothing catches
RunOutcome(command, proc) ==
    IF ~Spawns(command) THEN Raised("ValueError")
    ELSE IF ~Decodable(proc.out) \/ ~Decodable(proc.err) THEN Raised("UnicodeDecodeError")
    ELSE IF proc.rc # 0
    THEN Returned([status |-> "failed", command |-> command, stdout |-> Decode(proc.out),
                   stderr |-> Decode(proc.err), error |-> ErrorText(command, proc.rc)])
    ELSE Returned([status |-> "success", command |-> command, stdout |-> Decode(proc.out),
                   stderr |-> Decode(proc.err)])

\* which step of subprocess.run failed, if one did
ShellFault(command, proc) ==
    IF ~Spawns(command) THEN "spawn"
    ELSE IF ~Decodable(proc.out) \/ ~Decodable(proc.err) THEN "decode"
    ELSE ""

run_shell_command(p, command) ==
    /\ CanCall(p)
    /\ \E proc \in IF Spawns(command) THEN Processes ELSE {NoProc} :
        /\ call' = [call EXCEPT ![p] = [NoCall EXCEPT !.op = "run_shell_command",
                                                      !.input = command, !.proc = proc,
                                                      !.fault = ShellFault(command, proc)]]
        /\ result' = [result EXCEPT ![p] = RunOutcome(command, proc)]
    /\ pc' = [pc EXCEPT ![p] = "done"]
    /\ UNCHANGED <<linesep, writable, dirs, files, lastWrite>>

\* ------------------------------------------------------------------------
\* Initial states and the specifications
\* ------------------------------------------------------------------------
\* Any host, any permission, anything at the two directory paths; a file
\* may already be there when its directory is.
OldContents == {Rep("a", MaxShort + 1)}

Init ==
    /\ linesep \in LineSeps
    /\ writable \in BOOLEAN
    /\ dirs \in [BaseDirs -> {"absent", "dir", "file"}]
    /\ files \in [Locs -> {NoFile} \cup {File(d) : d \in OldContents}]
    /\ \A l \in Locs : files[l].exists => dirs[l[1]] = "dir"
    /\ pc = [p \in Callers |-> "idle"]
    /\ call = [p \in Callers |-> NoCall]
    /\ result = [p \in Callers |-> NoOutcome]
    /\ lastWrite = [l \in Locs |-> NoWrite]

\* The call surface, one synchronous caller: every operation, the writers
\* on plain names with short contents.
Next ==
    \E p \in 1..1 :
        \/ \E t \in Texts : define_task(p, t)
        \/ \E op \in WriterOps, name \in PlainNames, content \in ShortContents :
               WriteFileEnsure(p, op, name, content)
        \/ WriteFileOpen(p)
        \/ WriteFileWrite(p)
        \/ Return(p)
        \/ run_tests(p)
        \/ \E fd \in FailureDetails : analyze_failure(p, fd)
        \/ \E t \in Texts : refactor_code(p, t)
        \/ \E c \in Commands : run_shell_command(p, c)

Spec == Init /\ [][Next]_vars

\* The file system operations, one synchronous caller: the provisioner and
\* the writers on every name and content.
NextFiles ==
    \E p \in 1..1 :
        \/ ensure_dirs(p)
        \/ \E op \in WriterOps, name \in Names, content \in Contents :
               WriteFileEnsure(p, op, name, content)
        \/ WriteFileOpen(p)
        \/ WriteFileWrite(p)
        \/ Return(p)

SpecFiles == Init /\ [][NextFiles]_vars

\* Concurrent callers of one of the writers on the same file name: the
\* steps of their calls interleave in any order.  All callers of a run use
\* the same writer, so they meet on the same file.
ConcContents == {Rep("a", MaxShort), <<LF>>}

InitConc ==
    /\ Init
    /\ writable
    /\ \A d \in BaseDirs : dirs[d] = "absent"

NextConc ==
    \E p \in Callers :
        \/ \E op \in WriterOps, name \in PlainNames, content \in ConcContents :
               /\ \A q \in Callers : call[q].op \in {"none", op}
               /\ \A l \in Locs : l[1] # TargetDir(op) => ~files[l].exists
               /\ WriteFileEnsure(p, op, name, content)
        \/ WriteFileOpen(p)
        \/ WriteFileWrite(p)
        \/ Return(p)

SpecConc == InitConc /\ [][NextConc]_vars

\* ------------------------------------------------------------------------
\* Properties
\* ------------------------------------------------------------------------
Done(p, ops) == pc[p] = "done" /\ call[p].op \in ops

ReturnedBy(p, ops) == Done(p, ops) /\ result[p].kind = "returned"

\* what a complete write of content stores on this host
Stored(content) == TranslateNewlines(content, linesep)

\* the file that the path of a returned result names
FileAt(path) == files[OpenForWrite(path, dirs).loc]

HasLF(content) == \E i \in DOMAIN content : content[i] = LF

BothDirs == \A d \in BaseDirs : dirs[d] = "dir"

\* C1 as stated: after write_code_file returns, the file at the returned
\* file_path holds exactly the content argument, character for character.
C1_RoundTripExact ==
    \A p \in Callers :
        ReturnedBy(p, {"write_code_file"}) =>
            /\ FileAt(result[p].value.file_path).exists
            /\ FileAt(result[p].value.file_path).data = call[p].content

\* C1 amended: after write_code_file returns, the file at the returned
\* file_path holds the content with every "\n" replaced by the host's line
\* separator, whatever it held before; that is exactly the content when the
\* separator is "\n" or the content has no "\n".
C1_RoundTripUpToNewlines ==
    \A p \in Callers :
        ReturnedBy(p, {"write_code_file"}) =>
            LET f == FileAt(result[p].value.file_path)
            IN /\ f.exists
               /\ f.data = TranslateNewlines(call[p].content, linesep)
               /\ (linesep = <<LF>> \/ ~HasLF(call[p].content)) => f.data = call[p].content
               /\ (linesep = <<CR, LF>> /\ HasLF(call[p].content)) => f.data # call[p].content

\* a write_code_file over an existing file returned on a host whose line
\* separator is "\r\n", with content that has a "\n"
C1_Witness ==
    \E p \in Callers :
        /\ ReturnedBy(p, {"write_code_file"})
        /\ call[p].before \in {"written", "foreign"}
        /\ HasLF(call[p].content)
        /\ linesep = <<CR, LF>>

\* C2: a writer that returns after an earlier write of this program to the
\* same file leaves the file holding only what the second content stores:
\* nothing of the first remains, also when the second is shorter or empty.
C2_OverwriteNotAppend ==
    \A p \in Callers :
        (ReturnedBy(p, WriterOps) /\ call[p].before \in {"written", "written-empty"}) =>
            /\ files[call[p].fd].data = Stored(call[p].content)
            /\ Len(files[call[p].fd].data) = Len(Stored(call[p].content))
            /\ call[p].content = <<>> => files[call[p].fd].data = <<>>

\* an empty content written over a file that an earlier write had filled
C2_Witness ==
    \E p \in Callers :
        /\ ReturnedBy(p, WriterOps)
        /\ call[p].before = "written"
        /\ call[p].content = <<>>
        /\ files[call[p].fd].data = <<>>

AllReturned == \A p \in Callers : ReturnedBy(p, WriterOps)

\* C3 as stated: when concurrent calls on one file have all returned, the
\* file holds the complete content of the call that wrote last and nothing
\* else.
C3_LastWriteWins ==
    \A l \in Locs :
        (AllReturned /\ \A p \in Callers : call[p].fd = l) =>
            /\ files[l].data = lastWrite[l].data
            /\ \E p \in Callers : files[l].data = Stored(call[p].content)

\* C3 amended: when concurrent calls on one file have all returned, the
\* file begins with the complete content of the call that wrote last and is
\* no longer than the longest content of the calls; what follows the last
\* writer's content is left over from a call that wrote before it.
C3_LastWriteIsPrefix ==
    \A l \in Locs :
        (AllReturned /\ \A p \in Callers : call[p].fd = l) =>
            /\ \E p \in Callers : lastWrite[l].data = Stored(call[p].content)
            /\ IsPrefix(lastWrite[l].data, files[l].data)
            /\ \E p \in Callers : Len(files[l].data) = Len(Stored(call[p].content))

\* all calls returned and the file is a mixture: the last writer's content
\* followed by the tail of a longer one
C3_Witness ==
    \E l \in Locs :
        /\ AllReturned
        /\ \A p \in Callers : call[p].fd = l
        /\ files[l].data # lastWrite[l].data
        /\ \A p \in Callers : files[l].data # Stored(call[p].content)

ShellOps == {"run_shell_command"}

\* C4 as stated: run_shell_command returns a result for every command and
\* never raises; its status is "success" exactly on exit code 0.
C4_NeverRaises ==
    \A p \in Callers :
        Done(p, ShellOps) =>
            /\ result[p].kind = "returned"
            /\ call[p].proc.spawned
            /\ result[p].value.status = "success" <=> call[p].proc.rc = 0

\* C4 amended: whenever the shell process starts and its output decodes,
\* run_shell_command returns a result whose status is "success" exactly on
\* exit code 0 and "failed" exactly on any other, with the command, the
\* decoded stdout and stderr, and for "failed" a non-empty error text; a
\* command that cannot be started or output that cannot be decoded raises.
C4_StatusFromExitCode ==
    \A p \in Callers :
        Done(p, ShellOps) =>
            IF call[p].fault = ""
            THEN /\ result[p].kind = "returned"
                 /\ result[p].value.status = "success" <=> call[p].proc.rc = 0
                 /\ result[p].value.status = "failed" <=> call[p].proc.rc # 0
                 /\ result[p].value.command = call[p].input
                 /\ result[p].value.stdout = Decode(call[p].proc.out)
                 /\ result[p].value.stderr = Decode(call[p].proc.err)
                 /\ result[p].value.status = "failed" =>
                        /\ "error" \in DOMAIN result[p].value
                        /\ result[p].value.error # <<>>
            ELSE result[p].kind = "raised"

\* a process ended by a signal, reported as a failed result with its output
C4_Witness ==
    \E p \in Callers :
        /\ ReturnedBy(p, ShellOps)
        /\ call[p].proc.rc = -9
        /\ call[p].proc.err # <<>>
        /\ result[p].value.status = "failed"

\* C5: the preview a writer returns is the first PreviewLen characters of
\* the content: the content itself when it is that short, else a prefix of
\* exactly PreviewLen characters; the status is "success" and the file_path
\* ends with the given name.
C5_Preview ==
    \A p \in Callers :
        ReturnedBy(p, WriterOps) =>
            LET r == result[p].value
                c == call[p].content
            IN /\ r.status = "success"
               /\ EndsWith(r.file_path, call[p].name)
               /\ IsPrefix(r.content_preview, c)
               /\ Len(c) <= PreviewLen => r.content_preview = c
               /\ Len(c) > PreviewLen => Len(r.content_preview) = PreviewLen

\* a writer returned for a content longer than the preview
C5_Witness ==
    \E p \in Callers :
        /\ ReturnedBy(p, WriterOps)
        /\ Len(call[p].content) > PreviewLen
        /\ result[p].value.content_preview # call[p].content

Creatable == \A d \in BaseDirs : dirs[d] = "dir" \/ (dirs[d] = "absent" /\ writable)

\* C6: a call of _ensure_dirs never touches a file; where creation is
\* permitted it returns with both directories in place; on directories that
\* are in place, and so on every repeated call, it returns and changes
\* nothing.
C6_EnsureIdempotent ==
    [][\A p \in Callers :
         (CanCall(p) /\ pc'[p] = "done" /\ call'[p].op = "_ensure_dirs") =>
            /\ files' = files
            /\ Creatable => (result'[p] = Returned(PyNone) /\ BothDirs')
            /\ BothDirs => (dirs' = dirs /\ result'[p] = Returned(PyNone))
            /\ call'[p].repeat => (dirs' = dirs /\ result'[p] = Returned(PyNone))]_vars

\* a call of _ensure_dirs right after one that returned, with a file in place
C6_Witness ==
    \E p \in Callers :
        /\ ReturnedBy(p, {"_ensure_dirs"})
        /\ call[p].repeat
        /\ \E l \in Locs : files[l].exists

\* C7: a writer's call that met an IO fault (creating a directory, opening
\* the file, flushing the content) ended by raising and returned nothing; a
\* call that returned has status "success" and its file holds all of what
\* the content stores.
C7_FaultPropagates ==
    \A p \in Callers :
        Done(p, WriterOps) =>
            /\ call[p].fault # "" => result[p].kind = "raised"
            /\ result[p].kind = "returned" =>
                  /\ call[p].fault = ""
                  /\ result[p].value.status = "success"
                  /\ files[call[p].fd].exists
                  /\ files[call[p].fd].data = Stored(call[p].content)

\* a flush that failed half way: the call raised and the file is incomplete
C7_Witness ==
    \E p \in Callers :
        /\ Done(p, WriterOps)
        /\ call[p].fault = "write"
        /\ result[p].kind = "raised"
        /\ files[call[p].fd].data # Stored(call[p].content)

CallSurface == {"define_task", "write_test_file", "write_code_file", "run_tests",
                "analyze_failure", "refactor_code", "run_shell_command"}

\* C8: every call of the call surface that met no fault of its environment
\* (file system, process start, decoding) returned a record with a status
\* field.
C8_AlwaysStatus ==
    \A p \in Callers :
        (Done(p, CallSurface) /\ call[p].fault = "") =>
            /\ result[p].kind = "returned"
            /\ "status" \in DOMAIN result[p].value

\* C9: whenever a writer is about to open or to write its file, both the
\* code directory and the test directory exist.
C9_ProvisionBeforeWrite ==
    \A p \in Callers :
        (call[p].op \in WriterOps /\ (pc[p] \in {"open", "write"} \/ call[p].fd # <<>>)) =>
            BothDirs

\* write_test_file has opened its file and is about to write
C9_Witness ==
    \E p \in Callers :
        /\ pc[p] = "write"
        /\ call[p].op = "write_test_file"
        /\ files[call[p].fd] = File(<<>>)

\* the file a plain name denotes in the directory of the writer op
OwnLoc(op, name) ==
    <<IF op = "write_test_file" THEN TEST_BASE_DIR ELSE CODE_BASE_DIR, name[1]>>

\* C10: a step of a writer called with a plain file name leaves every file
\* but the one of that name in the writer's own directory as it was, and
\* when the call returns that file holds what its content stores.
C10_OwnDirectoryOnly ==
    [][\A p \in Callers :
         (call'[p].op \in WriterOps /\ call'[p].name \in PlainNames) =>
            /\ \A l \in Locs :
                 l # OwnLoc(call'[p].op, call'[p].name) => files'[l] = files[l]
            /\ (pc'[p] = "done" /\ result'[p].kind = "returned") =>
                 files'[OwnLoc(call'[p].op, call'[p].name)].data
                     = TranslateNewlines(call'[p].content, linesep)]_vars

\* the same name written through both writers: write_test_file returned and
\* the code directory still holds the different content written there
C10_Witness ==
    \E p \in Callers :
        /\ ReturnedBy(p, {"write_test_file"})
        /\ call[p].name \in PlainNames
        /\ lastWrite[<<CODE_BASE_DIR, call[p].name[1]>>].written
        /\ files[<<CODE_BASE_DIR, call[p].name[1]>>].data # <<>>
        /\ files[<<CODE_BASE_DIR, call[p].name[1]>>].data # files[call[p].fd].data

====
